---- MODULE Spec2Model ----
(***************************************************************************)
(* Model of the blocking rate limiter of redis_limiter.go:                 *)
(*   redisLimiter.Take      (lines 67-97)   the leaf retry loop            *)
(*   compositeLimiter       (lines 100-155) snapshot + sequential Take     *)
(*   AddLimiter             (lines 121-125) append under the write lock    *)
(* Every goroutine is a process with a call stack of frames; a frame is    *)
(* one activation of Take or AddLimiter and holds that call's locals.      *)
(* The quota store (redis_rate.Limiter.Allow) is the environment: a        *)
(* fixed-window counter per key that may also answer with an error, a nil  *)
(* result or a denial without a backoff hint when the run is faulty.       *)
(* Time is counted in periods: one Tick of the clock opens a new window.   *)
(* Spec is the program under any two goroutines, with faults and           *)
(* cancellation; SpecBurst is one goroutine that calls one limiter in a    *)
(* burst; SpecConc is AddLimiter and Take racing on one composite, the     *)
(* append taken in its two memory accesses; SpecLive is callers that       *)
(* never stop, under fair scheduling; SpecQuota is callers that compete    *)
(* for the units of a composite's constituents; SpecNest is one caller of  *)
(* a composite that holds a composite; SpecCtx is callers that never stop  *)
(* on a leaf whose context may be cancelled.                               *)
(***************************************************************************)
EXTENDS Integers, Sequences, FiniteSets, TLC

\* ------------------------------------------------------------- bounds
MaxClock == 2
MaxCalls == 2
MaxAdds == 1
\* calls of the single caller of a burst
MaxBurstCalls == 3
\* calls of the goroutines that append and snapshot concurrently
MaxConcCalls == 3
\* calls of the caller of nested and flat composites
MaxNestCalls == 2

\* ------------------------------------------------- program constants
\* config.per defaults to one period; the clock counts periods
Period == 1
\* the zero value of `var lastTime time.Time`; the clock starts after it
ZeroTime == 0

\* ------------------------------------------------------ configuration
Procs == {"p1", "p2"}
Leaves == {"a", "b"}
Composites == {"c"}
Limiters == Leaves \cup Composites
Keys == {"k1", "k2"}
\* redisLimiter.key
KeyOf(l) == IF l = "a" THEN "k1" ELSE "k2"
\* redisLimiter.limit.Rate (= Burst), the units per period
RateOf(l) == IF l = "a" THEN 1 ELSE 2
RateOfKey(k) == IF k = "k1" THEN 1 ELSE 2
\* the leaves built WithContext(ctx); the others keep context.Background()
Cancellable == {"a"}
\* the limiters a caller may hand to AddLimiter
Addable == {"b"}
\* the contents NewComposite may be given
InitialLimiters == {<< >>, <<"a">>}

Nil == "nil"
ErrIntervalServer == "rate limit interval server error"
StoreErrs == {"EConn"}
ErrCanceled == "context canceled"
NoProc == "none"

VARIABLES
    clock,      \* time.Now(), in periods
    used,       \* store: units consumed per key in the current window
    faulty,     \* whether the store of this run may answer outside its contract
    cancelled,  \* per leaf: ctx.Done() is closed
    limiters,   \* per composite: c.limiters
    readers,    \* per composite: goroutines holding c.mu read-locked
    writer,     \* per composite: goroutine that passed c.mu.Lock's writer mutex
    stack,      \* per process: call stack of frames (last = running)
    done,       \* the call that ended in the latest step of a goroutine, if one did (observation)
    dead,       \* the goroutines a panic has ended
    calls,      \* top-level calls started
    addsStarted,\* AddLimiter calls started
    nAdded,     \* per composite: AddLimiter calls that have returned
    base,       \* per composite: length of the sequence given to NewComposite
    okReturns   \* per key: leaf Take calls that returned nil in this window

vars == <<clock, used, faulty, cancelled, limiters, readers, writer, stack,
          done, dead, calls, addsStarted, nAdded, base, okReturns>>

\* ------------------------------------------------------- quota store
\* What redis_rate.Limiter.Allow hands back: (res, err), res possibly nil.
Allowed == [err |-> Nil, isnil |-> FALSE, allowed |-> 1, ra |-> 0 - 1]
Denied(d) == [err |-> Nil, isnil |-> FALSE, allowed |-> 0, ra |-> d]
StoreError(e) == [err |-> e, isnil |-> TRUE, allowed |-> 0, ra |-> 0]
NilResult == [err |-> Nil, isnil |-> TRUE, allowed |-> 0, ra |-> 0]
NoAnswer == [err |-> Nil, isnil |-> FALSE, allowed |-> 0 - 1, ra |-> 0]

\* the store's own decision: one unit while the window has some left,
\* otherwise a denial with the time to the next window
QuotaAnswer(k, rate) == IF used[k] < rate THEN Allowed ELSE Denied(Period)
\* answers outside the store's contract
FaultAnswers ==
    {StoreError(e) : e \in StoreErrs} \cup {NilResult} \cup {Denied(0)}
\* the query carries l.ctx: once the context is cancelled the client may give
\* the query up with the context's error, or the answer may still arrive
StoreAnswers(k, rate, ctxDone) ==
    {QuotaAnswer(k, rate)} \cup (IF faulty THEN FaultAnswers ELSE {})
                          \cup (IF ctxDone THEN {StoreError(ErrCanceled)} ELSE {})
Consume(k, r) == IF r.err = Nil /\ ~r.isnil /\ r.allowed > 0
                 THEN [used EXCEPT ![k] = @ + 1] ELSE used

\* ------------------------------------------------------------ frames
\* One activation record. Leaf Take uses now/last/deadline, composite Take
\* uses snap/i/lastTime/err, AddLimiter uses arg; log, nq, nw, blockPos,
\* startAdds observe the call (constituent calls returned, store queries
\* issued, backoff waits entered, snapshot position of the latest constituent
\* call that waited, AddLimiter calls returned before the call began).
NewFrame(op, l, pc0, a) ==
    [op |-> op, lim |-> l, pc |-> pc0, arg |-> a,
     snap |-> << >>, i |-> 0, lastTime |-> ZeroTime, err |-> Nil,
     now |-> ZeroTime, last |-> NoAnswer, deadline |-> 0,
     log |-> << >>, nq |-> 0, nw |-> 0, blockPos |-> 0,
     startAdds |-> IF l \in Composites THEN nAdded[l] ELSE 0]
NoCall ==
    [proc |-> NoProc, op |-> "none", lim |-> "none", exit |-> "none", err |-> Nil, t |-> ZeroTime,
     snap |-> << >>, log |-> << >>, nq |-> 0, nw |-> 0, last |-> NoAnswer,
     startAdds |-> 0, arg |-> "none", deadline |-> 0, blockPos |-> 0]

Depth(p) == Len(stack[p])
Running(p) == Depth(p) > 0
Top(p) == stack[p][Depth(p)]
At(p, op, pc0) == Running(p) /\ Top(p).op = op /\ Top(p).pc = pc0
Alive(p) == p \notin dead
SetTop(p, f) == [stack EXCEPT ![p] = [@ EXCEPT ![Depth(p)] = f]]
Push(p, f) == [stack EXCEPT ![p] = Append(@, f)]

\* the record of a call that has ended
Ended(p, f, exit, t, e) ==
    [proc |-> p, op |-> f.op, lim |-> f.lim, exit |-> exit, err |-> e, t |-> t,
     snap |-> f.snap, log |-> f.log, nq |-> f.nq, nw |-> f.nw, last |-> f.last,
     startAdds |-> f.startAdds, arg |-> f.arg, deadline |-> f.deadline,
     blockPos |-> f.blockPos]

\* `lastTime, err = limiter.Take()` (line 147): the caller frame receives the
\* callee's results
Receive(parent, f, t, e) ==
    [parent EXCEPT !.pc = "chk", !.lastTime = t, !.err = e,
                   !.log = Append(@, [lim |-> f.lim, err |-> e]),
                   !.nq = @ + f.nq, !.nw = @ + f.nw,
                   !.blockPos = IF f.nw > 0 THEN Len(parent.log) + 1 ELSE @]

\* the observation counters (store queries and backoff waits of a leaf Take,
\* nil returns per key and window) stop counting at CountCap: no call reaches
\* it while the clock is bounded by MaxClock (a query needs a new window
\* after each wait), and it lies above every rate
CountCap == MaxClock + 1
Counted(n) == IF n < CountCap THEN n + 1 ELSE n

\* the running frame of p returns (t, e) to its caller
Return(p, f, t, e) ==
    /\ done' = Ended(p, f, "return", t, e)
    /\ dead' = dead
    /\ stack' = [stack EXCEPT ![p] =
                    IF Depth(p) = 1 THEN << >>
                    ELSE Append(SubSeq(@, 1, Depth(p) - 2),
                                Receive(stack[p][Depth(p) - 1], f, t, e))]
    /\ okReturns' = IF f.lim \in Leaves /\ e = Nil
                    THEN [okReturns EXCEPT ![KeyOf(f.lim)] = Counted(@)]
                    ELSE okReturns

\* a nil-pointer panic unwinds the whole goroutine: nothing in Take recovers
Panic(p, f) ==
    /\ done' = Ended(p, f, "panic", clock, Nil)
    /\ dead' = dead \cup {p}
    /\ stack' = [stack EXCEPT ![p] = << >>]
    /\ okReturns' = okReturns

\* ------------------------------------------------ redisLimiter.Take
\* The branch taken on the store's answer, in the order the code tests it
\* (lines 72-95). `res.Allowed` is read before `res == nil` is tested, so
\* a nil result with a nil error dereferences a nil pointer at line 72.
\* variant: the `err != nil` test (line 76) is missing
TakeDecideNoErrCheck(r) ==
    IF r.err = Nil /\ r.isnil THEN "panic"
    ELSE IF r.err = Nil /\ r.allowed > 0 THEN "allowed"
    ELSE IF r.isnil THEN "interval"
    ELSE IF r.ra > 0 THEN "wait"
    ELSE "failopen"
\* variant: every denial is waited out and retried, backoff hint or none
\* (the `res.RetryAfter > 0` test of line 85 is missing)
TakeDecideRetryAlways(r) ==
    IF r.err = Nil /\ r.isnil THEN "panic"
    ELSE IF r.err = Nil /\ r.allowed > 0 THEN "allowed"
    ELSE IF r.err # Nil THEN "error"
    ELSE IF r.isnil THEN "interval"
    ELSE "wait"
\* variant: a denial is never waited out (the select of lines 85-92 is missing)
TakeDecideNoWait(r) ==
    IF r.err = Nil /\ r.isnil THEN "panic"
    ELSE IF r.err = Nil /\ r.allowed > 0 THEN "allowed"
    ELSE IF r.err # Nil THEN "error"
    ELSE IF r.isnil THEN "interval"
    ELSE "failopen"
TakeDecide(r) ==
    IF r.err = Nil /\ r.isnil THEN "panic"
    ELSE IF r.err = Nil /\ r.allowed > 0 THEN "allowed"
    ELSE IF r.err # Nil THEN "error"
    ELSE IF r.isnil THEN "interval"
    ELSE IF r.ra > 0 THEN "wait"
    ELSE "failopen"

\* the error returned when ctx.Done() wins the select (line 90)
\* variant: cancellation reported as ctx.Err()
CancelErrCtx == ErrCanceled
CancelErr == Nil

\* the time of the fail-open `return now, nil` (line 95)
\* variant: the clock is read again, as in the other returns of the loop
FailOpenTimeNow(f) == clock
FailOpenTime(f) == f.now

\* whether the timer of `case <-time.After(res.RetryAfter)` has fired (line 87)
\* variant: the select waits on a timer that never fires
TimerDueNever(f) == FALSE
TimerDue(f) == clock >= f.deadline

\* now := time.Now()  (line 69)
LeafNow(p) ==
    /\ At(p, "leaf", "now")
    /\ stack' = SetTop(p, [Top(p) EXCEPT !.now = clock, !.pc = "query"])
    /\ done' = NoCall
    /\ UNCHANGED <<clock, used, faulty, cancelled, limiters, readers, writer,
                   calls, addsStarted, nAdded, base, okReturns, dead>>

\* res, err := l.limiter.Allow(...)  (line 71), the store's side: the store
\* serves the query and consumes the unit it grants; the answer is on its
\* way and the goroutine stays parked in Allow
LeafQuery(p) ==
    /\ At(p, "leaf", "query")
    /\ LET f == Top(p)
           k == KeyOf(f.lim)
       IN \E r \in StoreAnswers(k, RateOf(f.lim), cancelled[f.lim]) :
            /\ used' = Consume(k, r)
            /\ stack' = SetTop(p, [f EXCEPT !.last = r, !.nq = Counted(@),
                                            !.pc = "reply"])
    /\ done' = NoCall
    /\ UNCHANGED <<clock, faulty, cancelled, limiters, readers, writer, calls,
                   addsStarted, nAdded, base, okReturns, dead>>

\* Allow returns (res, err) and Take branches on it  (lines 71-95); the
\* clock read by the returns and the start of the timer are those of the
\* moment the answer arrives
LeafReply(p) ==
    /\ At(p, "leaf", "reply")
    /\ LET g == Top(p)
           r == g.last
           d == TakeDecide(r)
       IN CASE d = "allowed" -> Return(p, g, g.now, Nil)
            [] d = "error" -> Return(p, g, clock, r.err)
            [] d = "panic" -> Panic(p, g)
            [] d = "interval" -> Return(p, g, clock, ErrIntervalServer)
            [] d = "wait" ->
                 /\ stack' = SetTop(p, [g EXCEPT !.pc = "wait",
                                                 !.deadline = clock + r.ra,
                                                 !.nw = Counted(@)])
                 /\ done' = NoCall
                 /\ UNCHANGED <<dead, okReturns>>
            [] OTHER -> Return(p, g, FailOpenTime(g), Nil)
    /\ UNCHANGED <<clock, used, faulty, cancelled, limiters, readers, writer,
                   calls, addsStarted, nAdded, base>>

\* case <-time.After(res.RetryAfter): continue  (lines 87-88)
LeafWaitElapsed(p) ==
    /\ At(p, "leaf", "wait")
    /\ TimerDue(Top(p))
    /\ stack' = SetTop(p, [Top(p) EXCEPT !.pc = "now"])
    /\ done' = NoCall
    /\ UNCHANGED <<clock, used, faulty, cancelled, limiters, readers, writer,
                   calls, addsStarted, nAdded, base, okReturns, dead>>

\* whether `case <-l.ctx.Done()` can proceed (line 89)
\* variant: the select has no case for the context
CtxDoneNever(l) == FALSE
CtxDone(l) == cancelled[l]

\* case <-l.ctx.Done(): return time.Now(), nil  (lines 89-90)
LeafWaitCancelled(p) ==
    /\ At(p, "leaf", "wait")
    /\ CtxDone(Top(p).lim)
    /\ Return(p, Top(p), clock, CancelErr)
    /\ UNCHANGED <<clock, used, faulty, cancelled, limiters, readers, writer,
                   calls, addsStarted, nAdded, base>>

\* --------------------------------------------- compositeLimiter.Take
\* copy(limiters, c.limiters)  (lines 131-132)
\* variant: the destination made with length 0, so copy moves nothing
SnapshotZeroLen(c) == << >>
Snapshot(c) == limiters[c]
\* the error of `return time.Now(), nil` on an empty snapshot (line 137)
\* variant: an empty composite fails closed
EmptyErrFailClosed == ErrIntervalServer
EmptyErr == Nil
\* if err != nil  (line 148)
\* variant: the constituent's error is ignored
AbortOnErrNever(e) == FALSE
AbortOnErr(e) == e # Nil
\* the error of `return time.Now(), err`  (line 150)
\* variant: the abort drops the error ("on error, fail open")
AbortErrFailOpen(e) == Nil
AbortErr(e) == e
\* the time of `return lastTime, nil` (line 154)
\* variant: the clock is read again, as in the other returns of Take
DoneTimeNow(f) == clock
DoneTime(f) == f.lastTime
\* the range loop's step to the next constituent (line 146)
\* variant: the loop steps over a constituent
NextIndexSkip(i) == i + 2
NextIndex(i) == i + 1

\* the frame that runs l.Take()
Entry(l) == IF l \in Leaves THEN NewFrame("leaf", l, "now", "none")
            ELSE NewFrame("comp", l, "rlock", "none")

\* c.mu.RLock()  (line 130): blocks while a writer holds or awaits the lock
CompRLock(p) ==
    /\ At(p, "comp", "rlock")
    /\ writer[Top(p).lim] = NoProc
    /\ readers' = [readers EXCEPT ![Top(p).lim] = @ + 1]
    /\ stack' = SetTop(p, [Top(p) EXCEPT !.pc = "copy"])
    /\ done' = NoCall
    /\ UNCHANGED <<clock, used, faulty, cancelled, limiters, writer, calls,
                   addsStarted, nAdded, base, okReturns, dead>>

\* limiters := make(...); copy(limiters, c.limiters)  (lines 131-132)
CompCopy(p) ==
    /\ At(p, "comp", "copy")
    /\ stack' = SetTop(p, [Top(p) EXCEPT !.snap = Snapshot(Top(p).lim),
                                         !.pc = "runlock"])
    /\ done' = NoCall
    /\ UNCHANGED <<clock, used, faulty, cancelled, limiters, readers, writer,
                   calls, addsStarted, nAdded, base, okReturns, dead>>

\* the read-lock holders left when the snapshot is done (line 133)
\* variant: the read lock is kept until Take returns (a deferred RUnlock)
ReadersLeftDeferred(n) == n
ReadersLeft(n) == n - 1

\* c.mu.RUnlock()  (line 133)
CompRUnlock(p) ==
    /\ At(p, "comp", "runlock")
    /\ readers' = [readers EXCEPT ![Top(p).lim] = ReadersLeft(@)]
    /\ stack' = SetTop(p, [Top(p) EXCEPT !.pc = "loop", !.i = 1])
    /\ done' = NoCall
    /\ UNCHANGED <<clock, used, faulty, cancelled, limiters, writer, calls,
                   addsStarted, nAdded, base, okReturns, dead>>

\* if len(limiters) == 0 { return time.Now(), nil }  (lines 136-138)
CompEmpty(p) ==
    /\ At(p, "comp", "loop")
    /\ Len(Top(p).snap) = 0
    /\ Return(p, Top(p), clock, EmptyErr)
    /\ UNCHANGED <<clock, used, faulty, cancelled, limiters, readers, writer,
                   calls, addsStarted, nAdded, base>>

\* limiter.Take() on the next constituent of the snapshot  (lines 146-147)
CompCall(p) ==
    /\ At(p, "comp", "loop")
    /\ Len(Top(p).snap) > 0
    /\ Top(p).i <= Len(Top(p).snap)
    /\ stack' = [stack EXCEPT ![p] =
                    Append([@ EXCEPT ![Depth(p)] = [Top(p) EXCEPT !.pc = "call"]],
                           Entry(Top(p).snap[Top(p).i]))]
    /\ done' = NoCall
    /\ UNCHANGED <<clock, used, faulty, cancelled, limiters, readers, writer,
                   calls, addsStarted, nAdded, base, okReturns, dead>>

\* if err != nil { return time.Now(), err }, else the next round (148-152)
CompChk(p) ==
    /\ At(p, "comp", "chk")
    /\ IF AbortOnErr(Top(p).err)
       THEN Return(p, Top(p), clock, AbortErr(Top(p).err))
       ELSE /\ stack' = SetTop(p, [Top(p) EXCEPT !.pc = "loop",
                                                 !.i = NextIndex(@)])
            /\ done' = NoCall
            /\ UNCHANGED <<dead, okReturns>>
    /\ UNCHANGED <<clock, used, faulty, cancelled, limiters, readers, writer,
                   calls, addsStarted, nAdded, base>>

\* return lastTime, nil  (line 154)
CompDone(p) ==
    /\ At(p, "comp", "loop")
    /\ Len(Top(p).snap) > 0
    /\ Top(p).i > Len(Top(p).snap)
    /\ Return(p, Top(p), DoneTime(Top(p)), Nil)
    /\ UNCHANGED <<clock, used, faulty, cancelled, limiters, readers, writer,
                   calls, addsStarted, nAdded, base>>

\* --------------------------------------- compositeLimiter.AddLimiter
\* whether c.mu.Lock() may pass the writers' mutex
\* variant: AddLimiter does not lock
LockFreeAlways(c) == TRUE
LockFree(c) == writer[c] = NoProc

\* c.mu.Lock(), first half: take the writers' mutex, which also turns new
\* readers away  (line 122)
AddLock(p) ==
    /\ At(p, "add", "lock")
    /\ LockFree(Top(p).lim)
    /\ writer' = [writer EXCEPT ![Top(p).lim] = p]
    /\ stack' = SetTop(p, [Top(p) EXCEPT !.pc = "drain"])
    /\ done' = NoCall
    /\ UNCHANGED <<clock, used, faulty, cancelled, limiters, readers, calls,
                   addsStarted, nAdded, base, okReturns, dead>>

\* whether the readers that c.mu.Lock() waits for have left
\* variant: Lock does not wait for the active readers
ReadersGoneAlways(c) == TRUE
ReadersGone(c) == readers[c] = 0

\* c.mu.Lock(), second half: wait until the active readers have left
AddDrain(p) ==
    /\ At(p, "add", "drain")
    /\ ReadersGone(Top(p).lim)
    /\ stack' = SetTop(p, [Top(p) EXCEPT !.pc = "append"])
    /\ done' = NoCall
    /\ UNCHANGED <<clock, used, faulty, cancelled, limiters, readers, writer,
                   calls, addsStarted, nAdded, base, okReturns, dead>>

\* c.limiters = append(c.limiters, limiter)  (line 124)
AddAppend(p) ==
    /\ At(p, "add", "append")
    /\ limiters' = [limiters EXCEPT ![Top(p).lim] = Append(@, Top(p).arg)]
    /\ stack' = SetTop(p, [Top(p) EXCEPT !.pc = "unlock"])
    /\ done' = NoCall
    /\ UNCHANGED <<clock, used, faulty, cancelled, readers, writer, calls,
                   addsStarted, nAdded, base, okReturns, dead>>

\* line 124 in its two memory accesses: append reads the slice c.limiters ...
AddAppendRead(p) ==
    /\ At(p, "add", "append")
    /\ stack' = SetTop(p, [Top(p) EXCEPT !.snap = limiters[Top(p).lim],
                                         !.pc = "write"])
    /\ done' = NoCall
    /\ UNCHANGED <<clock, used, faulty, cancelled, limiters, readers, writer,
                   calls, addsStarted, nAdded, base, okReturns, dead>>

\* ... and the assignment stores the slice that was read, extended by one
AddAppendWrite(p) ==
    /\ At(p, "add", "write")
    /\ limiters' = [limiters EXCEPT ![Top(p).lim] = Append(Top(p).snap, Top(p).arg)]
    /\ stack' = SetTop(p, [Top(p) EXCEPT !.pc = "unlock"])
    /\ done' = NoCall
    /\ UNCHANGED <<clock, used, faulty, cancelled, readers, writer, calls,
                   addsStarted, nAdded, base, okReturns, dead>>

\* defer c.mu.Unlock() and the return  (lines 123, 125)
AddUnlock(p) ==
    /\ At(p, "add", "unlock")
    /\ writer' = [writer EXCEPT ![Top(p).lim] = NoProc]
    /\ nAdded' = [nAdded EXCEPT ![Top(p).lim] = @ + 1]
    /\ Return(p, Top(p), ZeroTime, Nil)
    /\ UNCHANGED <<clock, used, faulty, cancelled, limiters, readers,
                   calls, addsStarted, base>>

\* ------------------------------------------------ callers, environment
\* a goroutine calls l.Take()
StartTake(p, l) ==
    /\ ~Running(p) /\ Alive(p)
    /\ calls < MaxCalls
    /\ calls' = calls + 1
    /\ stack' = Push(p, Entry(l))
    /\ done' = NoCall
    /\ UNCHANGED <<clock, used, faulty, cancelled, limiters, readers, writer,
                   addsStarted, nAdded, base, okReturns, dead>>

\* a goroutine calls c.AddLimiter(l)
StartAdd(p, c, l) ==
    /\ ~Running(p) /\ Alive(p)
    /\ calls < MaxCalls
    /\ addsStarted < MaxAdds
    /\ calls' = calls + 1
    /\ addsStarted' = addsStarted + 1
    /\ stack' = Push(p, NewFrame("add", c, "lock", l))
    /\ done' = NoCall
    /\ UNCHANGED <<clock, used, faulty, cancelled, limiters, readers, writer,
                   nAdded, base, okReturns, dead>>

\* a period ends: the store opens a new window for every key
Tick ==
    /\ clock < MaxClock
    /\ clock' = clock + 1
    /\ used' = [k \in Keys |-> 0]
    /\ okReturns' = [k \in Keys |-> 0]
    /\ UNCHANGED <<faulty, cancelled, limiters, readers, writer, stack, done,
                   calls, addsStarted, nAdded, base, dead>>

\* the owner of a limiter's context cancels it
Cancel(l) ==
    /\ ~cancelled[l]
    /\ cancelled' = [cancelled EXCEPT ![l] = TRUE]
    /\ UNCHANGED <<clock, used, faulty, limiters, readers, writer, stack, done,
                   calls, addsStarted, nAdded, base, okReturns, dead>>

Init ==
    /\ clock = 1
    /\ used = [k \in Keys |-> 0]
    /\ faulty \in BOOLEAN
    /\ cancelled = [l \in Leaves |-> FALSE]
    /\ limiters \in [Composites -> InitialLimiters]
    /\ readers = [c \in Composites |-> 0]
    /\ writer = [c \in Composites |-> NoProc]
    /\ stack = [p \in Procs |-> << >>]
    /\ done = NoCall
    /\ dead = {}
    /\ calls = 0
    /\ addsStarted = 0
    /\ nAdded = [c \in Composites |-> 0]
    /\ base = [c \in Composites |-> Len(limiters[c])]
    /\ okReturns = [k \in Keys |-> 0]

Next ==
    \/ \E p \in Procs : \E l \in Limiters : StartTake(p, l)
    \/ \E p \in Procs : \E c \in Composites : \E l \in Addable : StartAdd(p, c, l)
    \/ \E p \in Procs : LeafNow(p)
    \/ \E p \in Procs : LeafQuery(p)
    \/ \E p \in Procs : LeafReply(p)
    \/ \E p \in Procs : LeafWaitElapsed(p)
    \/ \E p \in Procs : LeafWaitCancelled(p)
    \/ \E p \in Procs : CompRLock(p)
    \/ \E p \in Procs : CompCopy(p)
    \/ \E p \in Procs : CompRUnlock(p)
    \/ \E p \in Procs : CompEmpty(p)
    \/ \E p \in Procs : CompCall(p)
    \/ \E p \in Procs : CompChk(p)
    \/ \E p \in Procs : CompDone(p)
    \/ \E p \in Procs : AddLock(p)
    \/ \E p \in Procs : AddDrain(p)
    \/ \E p \in Procs : AddAppend(p)
    \/ \E p \in Procs : AddUnlock(p)
    \/ Tick
    \/ \E l \in Cancellable : Cancel(l)

Spec == Init /\ [][Next]_vars

\* ------------------------------------------------- a sequential burst
\* The set-up of TestLimiter_AllowsWithinRate, TestLimiter_BlocksWhenExceeded,
\* TestCompositeLimiter_BothLimitsMustPass and TestCompositeLimiter_AddLimiter:
\* one goroutine calls Take on one limiter again and again, the keys are
\* fresh, the store keeps its contract. The leaf of rate 2 has the default
\* context, as in the tests; the leaf of rate 1 is built WithContext, and
\* the owner of that context may cancel it at any moment. A composite is
\* given its two constituents at construction, in either order, or gets the
\* second one by AddLimiter before the first Take.
BurstCaller == "p1"
BurstLimiters == {<<"a">>, <<"b">>, <<"a", "b">>, <<"b", "a">>}
\* the limiter the burst is run on
BurstTarget == IF Running(BurstCaller) THEN stack[BurstCaller][1].lim ELSE done.lim
\* Take calls of the burst begun so far
BurstTakes == calls - addsStarted

\* the next limiter.Take() of the loop
BurstTake(l) ==
    /\ ~Running(BurstCaller)
    /\ calls < MaxBurstCalls
    /\ calls > 0 => l = done.lim
    /\ calls' = calls + 1
    /\ stack' = Push(BurstCaller, Entry(l))
    /\ done' = NoCall
    /\ UNCHANGED <<clock, used, faulty, cancelled, limiters, readers, writer,
                   addsStarted, nAdded, base, okReturns, dead>>

\* composite.AddLimiter(limiter2) ahead of the burst
BurstAdd(c, l) ==
    /\ ~Running(BurstCaller)
    /\ calls = 0
    /\ Len(limiters[c]) = 1 /\ limiters[c][1] # l
    /\ calls' = calls + 1
    /\ addsStarted' = addsStarted + 1
    /\ stack' = Push(BurstCaller, NewFrame("add", c, "lock", l))
    /\ done' = NoCall
    /\ UNCHANGED <<clock, used, faulty, cancelled, limiters, readers, writer,
                   nAdded, base, okReturns, dead>>

BurstInit ==
    /\ clock = 1
    /\ used = [k \in Keys |-> 0]
    /\ faulty = FALSE
    /\ cancelled = [l \in Leaves |-> FALSE]
    /\ limiters \in [Composites -> BurstLimiters]
    /\ readers = [c \in Composites |-> 0]
    /\ writer = [c \in Composites |-> NoProc]
    /\ stack = [p \in Procs |-> << >>]
    /\ done = NoCall
    /\ dead = {}
    /\ calls = 0
    /\ addsStarted = 0
    /\ nAdded = [c \in Composites |-> 0]
    /\ base = [c \in Composites |-> Len(limiters[c])]
    /\ okReturns = [k \in Keys |-> 0]

BurstNext ==
    \/ \E l \in Limiters : BurstTake(l)
    \/ \E c \in Composites : \E l \in Leaves : BurstAdd(c, l)
    \/ LeafNow(BurstCaller)
    \/ LeafQuery(BurstCaller)
    \/ LeafReply(BurstCaller)
    \/ LeafWaitElapsed(BurstCaller)
    \/ LeafWaitCancelled(BurstCaller)
    \/ CompRLock(BurstCaller)
    \/ CompCopy(BurstCaller)
    \/ CompRUnlock(BurstCaller)
    \/ CompCall(BurstCaller)
    \/ CompChk(BurstCaller)
    \/ CompDone(BurstCaller)
    \/ AddLock(BurstCaller)
    \/ AddDrain(BurstCaller)
    \/ AddAppend(BurstCaller)
    \/ AddUnlock(BurstCaller)
    \/ Tick
    \/ \E l \in Cancellable : Cancel(l)

SpecBurst == BurstInit /\ [][BurstNext]_vars

\* ------------------------------------- concurrent appends and snapshots
\* Goroutines call AddLimiter and Take on one composite at the same time;
\* each goroutine appends a limiter of its own, once. The append of line 124
\* is taken in its two memory accesses, so that what the lock is for shows.
ConcArg(p) == IF p = "p1" THEN "a" ELSE "b"
\* the limiters appended to c so far
Appended(c) == SubSeq(limiters[c], base[c] + 1, Len(limiters[c]))

\* a goroutine calls c.Take()
ConcTake(p, c) ==
    /\ ~Running(p) /\ Alive(p)
    /\ calls < MaxConcCalls
    /\ calls' = calls + 1
    /\ stack' = Push(p, Entry(c))
    /\ done' = NoCall
    /\ UNCHANGED <<clock, used, faulty, cancelled, limiters, readers, writer,
                   addsStarted, nAdded, base, okReturns, dead>>

\* a goroutine calls c.AddLimiter with its own limiter, which it has not
\* appended yet
ConcAdd(p, c) ==
    /\ ~Running(p) /\ Alive(p)
    /\ calls < MaxConcCalls
    /\ \A j \in 1..Len(Appended(c)) : Appended(c)[j] # ConcArg(p)
    /\ calls' = calls + 1
    /\ addsStarted' = addsStarted + 1
    /\ stack' = Push(p, NewFrame("add", c, "lock", ConcArg(p)))
    /\ done' = NoCall
    /\ UNCHANGED <<clock, used, faulty, cancelled, limiters, readers, writer,
                   nAdded, base, okReturns, dead>>

ConcInit ==
    /\ clock = 1
    /\ used = [k \in Keys |-> 0]
    /\ faulty = FALSE
    /\ cancelled = [l \in Leaves |-> FALSE]
    /\ limiters \in [Composites -> InitialLimiters]
    /\ readers = [c \in Composites |-> 0]
    /\ writer = [c \in Composites |-> NoProc]
    /\ stack = [p \in Procs |-> << >>]
    /\ done = NoCall
    /\ dead = {}
    /\ calls = 0
    /\ addsStarted = 0
    /\ nAdded = [c \in Composites |-> 0]
    /\ base = [c \in Composites |-> Len(limiters[c])]
    /\ okReturns = [k \in Keys |-> 0]

ConcNext ==
    \/ \E p \in Procs : \E c \in Composites : ConcTake(p, c)
    \/ \E p \in Procs : \E c \in Composites : ConcAdd(p, c)
    \/ \E p \in Procs : LeafNow(p)
    \/ \E p \in Procs : LeafQuery(p)
    \/ \E p \in Procs : LeafReply(p)
    \/ \E p \in Procs : LeafWaitElapsed(p)
    \/ \E p \in Procs : CompRLock(p)
    \/ \E p \in Procs : CompCopy(p)
    \/ \E p \in Procs : CompRUnlock(p)
    \/ \E p \in Procs : CompEmpty(p)
    \/ \E p \in Procs : CompCall(p)
    \/ \E p \in Procs : CompChk(p)
    \/ \E p \in Procs : CompDone(p)
    \/ \E p \in Procs : AddLock(p)
    \/ \E p \in Procs : AddDrain(p)
    \/ \E p \in Procs : AddAppendRead(p)
    \/ \E p \in Procs : AddAppendWrite(p)
    \/ \E p \in Procs : AddUnlock(p)
    \/ Tick

SpecConc == ConcInit /\ [][ConcNext]_vars

\* ------------------------------------------- callers that never stop
\* Goroutines call Take again and again, without end, on limiters that share
\* keys; the store keeps its contract and its windows keep renewing; nobody
\* cancels a context or changes a composite. Time is kept relative to the
\* present so that it can run on for ever: the clock reads the same, and a
\* new window makes every time a call holds one period older.
Age(t) == IF t > ZeroTime THEN t - Period ELSE ZeroTime
AgedFrame(f) == [f EXCEPT !.now = Age(@), !.deadline = Age(@), !.lastTime = Age(@)]

\* a goroutine calls l.Take()
LiveTake(p, l) ==
    /\ ~Running(p) /\ Alive(p)
    /\ stack' = Push(p, Entry(l))
    /\ done' = NoCall
    /\ UNCHANGED <<clock, used, faulty, cancelled, limiters, readers, writer,
                   calls, addsStarted, nAdded, base, okReturns, dead>>

\* a period ends: the store opens a new window for every key
LiveTick ==
    /\ used' = [k \in Keys |-> 0]
    /\ okReturns' = [k \in Keys |-> 0]
    /\ stack' = [p \in Procs |-> [j \in 1..Depth(p) |-> AgedFrame(stack[p][j])]]
    /\ done' = [done EXCEPT !.t = Age(@), !.deadline = Age(@)]
    /\ UNCHANGED <<clock, faulty, cancelled, limiters, readers, writer,
                   calls, addsStarted, nAdded, base, dead>>

\* the steps of the Take call that goroutine p is in
LiveStep(p) ==
    \/ LeafNow(p)
    \/ LeafQuery(p)
    \/ LeafReply(p)
    \/ LeafWaitElapsed(p)
    \/ CompRLock(p)
    \/ CompCopy(p)
    \/ CompRUnlock(p)
    \/ CompEmpty(p)
    \/ CompCall(p)
    \/ CompChk(p)
    \/ CompDone(p)

LiveInit ==
    /\ clock = 1
    /\ used = [k \in Keys |-> 0]
    /\ faulty = FALSE
    /\ cancelled = [l \in Leaves |-> FALSE]
    /\ limiters \in [Composites -> InitialLimiters]
    /\ readers = [c \in Composites |-> 0]
    /\ writer = [c \in Composites |-> NoProc]
    /\ stack = [p \in Procs |-> << >>]
    /\ done = NoCall
    /\ dead = {}
    /\ calls = 0
    /\ addsStarted = 0
    /\ nAdded = [c \in Composites |-> 0]
    /\ base = [c \in Composites |-> Len(limiters[c])]
    /\ okReturns = [k \in Keys |-> 0]

LiveNext ==
    \/ \E p \in Procs : \E l \in Limiters : LiveTake(p, l)
    \/ \E p \in Procs : LeafNow(p)
    \/ \E p \in Procs : LeafQuery(p)
    \/ \E p \in Procs : LeafReply(p)
    \/ \E p \in Procs : LeafWaitElapsed(p)
    \/ \E p \in Procs : CompRLock(p)
    \/ \E p \in Procs : CompCopy(p)
    \/ \E p \in Procs : CompRUnlock(p)
    \/ \E p \in Procs : CompEmpty(p)
    \/ \E p \in Procs : CompCall(p)
    \/ \E p \in Procs : CompChk(p)
    \/ \E p \in Procs : CompDone(p)
    \/ LiveTick

\* fair scheduling: a goroutine whose Take can take a step takes one, and the
\* store's windows keep renewing; nothing makes a caller call Take
SpecLive ==
    /\ LiveInit /\ [][LiveNext]_vars
    /\ WF_vars(LiveTick)
    /\ \A p \in Procs : WF_vars(LiveStep(p))

\* ------------------------------------------ callers that share quotas
\* Goroutines call Take on a composite of two constituents and on its
\* constituents directly, so that calls compete for the units of a key; a
\* composite may hold the same limiter twice. Contexts may be cancelled and
\* the store may fail; nobody appends.
QuotaLimiters == {<<"a", "a">>, <<"a", "b">>, <<"b", "a">>}

QuotaInit ==
    /\ clock = 1
    /\ used = [k \in Keys |-> 0]
    /\ faulty \in BOOLEAN
    /\ cancelled = [l \in Leaves |-> FALSE]
    /\ limiters \in [Composites -> QuotaLimiters]
    /\ readers = [c \in Composites |-> 0]
    /\ writer = [c \in Composites |-> NoProc]
    /\ stack = [p \in Procs |-> << >>]
    /\ done = NoCall
    /\ dead = {}
    /\ calls = 0
    /\ addsStarted = 0
    /\ nAdded = [c \in Composites |-> 0]
    /\ base = [c \in Composites |-> Len(limiters[c])]
    /\ okReturns = [k \in Keys |-> 0]

QuotaNext ==
    \/ \E p \in Procs : \E l \in Limiters : StartTake(p, l)
    \/ \E p \in Procs : LeafNow(p)
    \/ \E p \in Procs : LeafQuery(p)
    \/ \E p \in Procs : LeafReply(p)
    \/ \E p \in Procs : LeafWaitElapsed(p)
    \/ \E p \in Procs : LeafWaitCancelled(p)
    \/ \E p \in Procs : CompRLock(p)
    \/ \E p \in Procs : CompCopy(p)
    \/ \E p \in Procs : CompRUnlock(p)
    \/ \E p \in Procs : CompCall(p)
    \/ \E p \in Procs : CompChk(p)
    \/ \E p \in Procs : CompDone(p)
    \/ Tick
    \/ \E l \in Cancellable : Cancel(l)

SpecQuota == QuotaInit /\ [][QuotaNext]_vars

\* ------------------------------------------- composites of composites
\* A composite is a Limiter, so NewComposite may be given composites. Here
\* composite "c" holds composite "d" among its constituents, and "e" is a
\* composite of leaves only, holding the leaves of "c" and "d" in the order
\* in which "c" reaches them. One goroutine calls Take on "c" and on "e",
\* one call after the other; contexts may be cancelled and the store may
\* fail; nobody appends.
NestComposites == {"c", "d", "e"}
NestShapes ==
    { [c |-> <<"d", "a">>, d |-> <<"a", "b">>, e |-> <<"a", "b", "a">>],
      [c |-> <<"b", "d">>, d |-> <<"a">>, e |-> <<"b", "a">>],
      [c |-> <<"a", "d", "b">>, d |-> << >>, e |-> <<"a", "b">>] }
NestRoots == {"c", "e"}
NestCaller == "p1"

NestInit ==
    /\ clock = 1
    /\ used = [k \in Keys |-> 0]
    /\ faulty \in BOOLEAN
    /\ cancelled = [l \in Leaves |-> FALSE]
    /\ limiters \in NestShapes
    /\ readers = [c \in NestComposites |-> 0]
    /\ writer = [c \in NestComposites |-> NoProc]
    /\ stack = [p \in Procs |-> << >>]
    /\ done = NoCall
    /\ dead = {}
    /\ calls = 0
    /\ addsStarted = 0
    /\ nAdded = [c \in NestComposites |-> 0]
    /\ base = [c \in NestComposites |-> Len(limiters[c])]
    /\ okReturns = [k \in Keys |-> 0]

\* the single caller's next Take, on the nested or on the flat composite
NestTake(l) ==
    /\ ~Running(NestCaller) /\ Alive(NestCaller)
    /\ calls < MaxNestCalls
    /\ calls' = calls + 1
    /\ stack' = Push(NestCaller, Entry(l))
    /\ done' = NoCall
    /\ UNCHANGED <<clock, used, faulty, cancelled, limiters, readers, writer,
                   addsStarted, nAdded, base, okReturns, dead>>

NestNext ==
    \/ \E l \in NestRoots : NestTake(l)
    \/ LeafNow(NestCaller)
    \/ LeafQuery(NestCaller)
    \/ LeafReply(NestCaller)
    \/ LeafWaitElapsed(NestCaller)
    \/ LeafWaitCancelled(NestCaller)
    \/ CompRLock(NestCaller)
    \/ CompCopy(NestCaller)
    \/ CompRUnlock(NestCaller)
    \/ CompEmpty(NestCaller)
    \/ CompCall(NestCaller)
    \/ CompChk(NestCaller)
    \/ CompDone(NestCaller)
    \/ Tick
    \/ \E l \in Cancellable : Cancel(l)

SpecNest == NestInit /\ [][NestNext]_vars

\* ------------------------------- a context cancelled under contention
\* Goroutines call Take again and again, without end, on the one leaf that
\* was built WithContext, whose context may be cancelled at any moment. Time
\* is kept relative to the present, as for the callers that never stop. The
\* store keeps its contract, so a caller is denied in every window in which
\* another caller got the unit first.
CtxLeaf == "a"

\* a goroutine calls Take on the leaf
CtxTake(p) ==
    /\ ~Running(p) /\ Alive(p)
    /\ stack' = Push(p, Entry(CtxLeaf))
    /\ done' = NoCall
    /\ UNCHANGED <<clock, used, faulty, cancelled, limiters, readers, writer,
                   calls, addsStarted, nAdded, base, okReturns, dead>>

\* the steps of the leaf Take that goroutine p is in
CtxStep(p) ==
    \/ LeafNow(p)
    \/ LeafQuery(p)
    \/ LeafReply(p)
    \/ LeafWaitElapsed(p)
    \/ LeafWaitCancelled(p)

CtxNext ==
    \/ \E p \in Procs : CtxTake(p)
    \/ \E p \in Procs : LeafNow(p)
    \/ \E p \in Procs : LeafQuery(p)
    \/ \E p \in Procs : LeafReply(p)
    \/ \E p \in Procs : LeafWaitElapsed(p)
    \/ \E p \in Procs : LeafWaitCancelled(p)
    \/ LiveTick
    \/ Cancel(CtxLeaf)

\* fair scheduling: a goroutine whose Take can take a step takes one and the
\* store's windows keep renewing. The select of lines 86-91 picks among its
\* ready cases at random, so a call that finds the context's case ready again
\* and again does not pass it over for ever (strong fairness); nothing makes
\* a caller call Take or the owner cancel the context.
SpecCtx ==
    /\ LiveInit /\ [][CtxNext]_vars
    /\ WF_vars(LiveTick)
    /\ \A p \in Procs : WF_vars(CtxStep(p))
    /\ \A p \in Procs : SF_vars(LeafWaitCancelled(p))

\* ===================================================== properties
\* The frames of one kind on the goroutines' stacks, as <<goroutine, depth>>.
FramesOf(op) ==
    UNION {{<<p, j>> : j \in {m \in 1..Depth(p) : stack[p][m].op = op}} : p \in Procs}
CompFrames == FramesOf("comp")
LeafFrames == FramesOf("leaf")
FrameOf(x) == stack[x[1]][x[2]]
PastSnapshot(f) == f.pc \in {"loop", "call", "chk"}
Returned(op) == done.op = op /\ done.exit = "return"
IsAllowed(r) == r.err = Nil /\ ~r.isnil /\ r.allowed > 0
IsBackoff(r) == r.err = Nil /\ ~r.isnil /\ r.allowed <= 0 /\ r.ra > 0

\* C1: a composite Take that returns a nil error on a non-empty snapshot has
\* called Take on every constituent of the snapshot, position by position,
\* and each of those calls returned a nil error.
C1_UnanimousAdmission ==
    (Returned("comp") /\ done.err = Nil /\ Len(done.snap) > 0) =>
        /\ Len(done.log) = Len(done.snap)
        /\ \A j \in 1..Len(done.snap) :
              done.log[j] = [lim |-> done.snap[j], err |-> Nil]
\* a composite Take over two constituents has returned nil
C1_Witness ==
    Returned("comp") /\ done.err = Nil /\ Len(done.snap) = 2

\* C2: in every window, the leaf Take calls on one key that returned a nil
\* error number at most the key's rate, here with a store that keeps its
\* contract.
C2_AtMostRatePerPeriod ==
    ~faulty => \A k \in Keys : okReturns[k] <= RateOfKey(k)

\* C3: a leaf Take returns a nil error only when the last answer of the
\* store to that call was Allowed, here with a store that keeps its contract.
C3_NilOnlyAfterAllowed ==
    (~faulty /\ Returned("leaf") /\ done.err = Nil) => IsAllowed(done.last)

\* what a snapshot looks like next to the composite's sequence
C4_SnapshotState ==
    \A x \in CompFrames :
        LET f == FrameOf(x) IN
        PastSnapshot(f) =>
            /\ Len(f.snap) <= Len(limiters[f.lim])
            /\ f.snap = SubSeq(limiters[f.lim], 1, Len(f.snap))
            /\ Len(f.snap) >= base[f.lim] + f.startAdds
\* what a step may do to a call's snapshot
C4_SnapshotStep ==
    \A p \in Procs : \A j \in 1..Depth(p) :
        LET f == stack[p][j] IN
        (f.op = "comp" /\ f.pc # "rlock" /\ Len(stack'[p]) >= j) =>
            LET g == stack'[p][j] IN
            IF f.pc = "copy"
            THEN g.pc # "copy" => g.snap = limiters[f.lim]
            ELSE g.snap = f.snap
\* C4: a composite Take works on the sequence as it stood at its snapshot
\* step: the copy step takes the whole sequence and no later step of anyone
\* changes the call's copy, so the snapshot stays a prefix of the
\* (append-only) sequence however many AddLimiter calls complete meanwhile,
\* and it holds every constituent whose AddLimiter returned before the call
\* began.
C4_SnapshotIsolation == [](C4_SnapshotState) /\ [][C4_SnapshotStep]_vars
\* a Take is past its snapshot step, an AddLimiter has returned since the
\* call began, and the call still works on the shorter sequence
C4_Witness ==
    \E x \in CompFrames :
        LET f == FrameOf(x) IN
        /\ PastSnapshot(f)
        /\ nAdded[f.lim] > f.startAdds
        /\ Len(f.snap) < Len(limiters[f.lim])

\* the only step open to a cancelled, still waiting leaf Take
C5_CancelStep ==
    \A p \in Procs :
        (/\ At(p, "leaf", "wait")
         /\ cancelled[Top(p).lim]
         /\ clock < Top(p).deadline
         /\ stack'[p] # stack[p]) =>
            /\ Len(stack'[p]) = Depth(p) - 1
            /\ done'.proc = p /\ done'.op = "leaf" /\ done'.exit = "return"
            /\ done'.lim = Top(p).lim
            /\ done'.err = Nil
            /\ done'.nq = Top(p).nq
\* C5: a leaf Take that is suspended in its backoff wait with the context
\* cancelled and the wait not yet elapsed can only go on by returning a nil
\* error, and it returns without another store query.
C5_CancellationYieldsSuccess == [][C5_CancelStep]_vars
\* a leaf Take has returned out of a backoff wait before its deadline
C5_Witness ==
    /\ Returned("leaf") /\ done.err = Nil
    /\ IsBackoff(done.last) /\ done.nw > 0
    /\ done.t < done.deadline

\* C6: a leaf Take whose store query returned an error does nothing but
\* return: its frame is found only at the branch on the answer, never in a
\* wait, at a clock reading or at a further query, and the call that has
\* ended returned that very error.
C6_StoreErrorSurfaced ==
    /\ \A x \in LeafFrames :
          FrameOf(x).last.err # Nil => FrameOf(x).pc = "reply"
    /\ (done.op = "leaf" /\ done.last.err # Nil) =>
           /\ done.exit = "return"
           /\ done.err = done.last.err
\* a leaf Take has returned the store's error after an earlier denial
C6_Witness ==
    /\ Returned("leaf") /\ done.last.err \in StoreErrs
    /\ done.err = done.last.err /\ done.nq = 2

\* C7: a nil result with a nil error makes the leaf Take return
\* ErrIntervalServer as an ordinary return value.
C7_NilResultIsIntervalError ==
    (done.op = "leaf" /\ done.last.err = Nil /\ done.last.isnil) =>
        (done.exit = "return" /\ done.err = ErrIntervalServer)

\* C8: a composite Take whose constituent returned an error returns that
\* error at once: the error is seen only in the step that checks it, it is
\* the first and only error the call met, it belongs to the constituent at
\* that position of the snapshot, and no later constituent was called.
C8_FirstErrorAborts ==
    /\ \A x \in CompFrames :
          LET f == FrameOf(x) IN
          \A m \in 1..Len(f.log) :
              f.log[m].err # Nil => (m = Len(f.log) /\ f.pc = "chk")
    /\ (Returned("comp") /\ \E m \in 1..Len(done.log) : done.log[m].err # Nil) =>
          LET n == Len(done.log) IN
          /\ n <= Len(done.snap)
          /\ done.log[n].lim = done.snap[n]
          /\ done.err = done.log[n].err
          /\ \A m \in 1..(n - 1) : done.log[m].err = Nil
\* a composite Take has returned its first constituent's error and left the
\* second constituent of its snapshot uncalled
C8_Witness ==
    /\ Returned("comp") /\ done.err # Nil
    /\ Len(done.log) = 1 /\ Len(done.snap) = 2
    /\ done.err = done.log[1].err

\* C9: a composite Take with an empty snapshot calls no constituent (so it
\* neither suspends nor queries the store) and returns a nil error, whatever
\* has been appended to the composite since its snapshot step.
C9_EmptyFailsOpen ==
    /\ \A x \in CompFrames :
          LET f == FrameOf(x) IN
          (PastSnapshot(f) /\ Len(f.snap) = 0) =>
              /\ f.pc = "loop" /\ f.log = << >>
              /\ x[2] = Depth(x[1])
    /\ (Returned("comp") /\ Len(done.snap) = 0) =>
          /\ done.err = Nil
          /\ done.log = << >> /\ done.nq = 0 /\ done.nw = 0
\* a Take on an empty snapshot has returned although an AddLimiter has
\* completed since the call began
C9_Witness ==
    /\ Returned("comp") /\ Len(done.snap) = 0 /\ done.err = Nil
    /\ nAdded[done.lim] > done.startAdds
    /\ Len(limiters[done.lim]) > 0

\* C10: a composite Take calls its constituents one at a time in snapshot
\* order: the calls that have returned are those of positions 1..i-1 (1..i
\* while the result of position i is checked), one per position, and while
\* the call of position i runs every earlier one has returned nil.
C10_SequentialInOrder ==
    /\ \A x \in CompFrames :
          LET f == FrameOf(x)
              p == x[1]
              j == x[2]
          IN PastSnapshot(f) =>
              /\ Len(f.log) = IF f.pc = "chk" THEN f.i ELSE f.i - 1
              /\ Len(f.log) <= Len(f.snap)
              /\ \A m \in 1..Len(f.log) : f.log[m].lim = f.snap[m]
              /\ (f.pc = "call") =>
                    /\ f.i <= Len(f.snap)
                    /\ Depth(p) > j
                    /\ stack[p][j + 1].lim = f.snap[f.i]
                    /\ \A m \in 1..Len(f.log) : f.log[m].err = Nil
              /\ (f.pc # "call") => Depth(p) = j
    /\ Returned("comp") =>
          /\ Len(done.log) <= Len(done.snap)
          /\ \A m \in 1..Len(done.log) : done.log[m].lim = done.snap[m]
\* the second constituent of a snapshot is being called after the first
\* returned nil
C10_Witness ==
    \E x \in CompFrames :
        LET f == FrameOf(x) IN
        /\ f.pc = "call" /\ f.i = 2
        /\ f.log = <<[lim |-> f.snap[1], err |-> Nil]>>

\* the frames of the burst's caller
BurstFrames == {j \in 1..(MaxBurstCalls + 2) : j <= Depth(BurstCaller)}
\* the smallest rate among the constituents of a sequence
MinRate(s) == CHOOSE n \in {RateOf(s[j]) : j \in 1..Len(s)} :
                  \A m \in 1..Len(s) : n <= RateOf(s[m])

\* C11: a single caller bursts Take on one leaf with a fresh key and rate N.
\* None of the first N calls ever sits in a backoff wait: each returns a nil
\* error on its first query, answered Allowed. The (N+1)th call, begun in the
\* window of the first N, has not returned while that window lasts; the
\* store's answer to it in that window is a denial, and on that answer it is
\* suspended for a period, and when it has waited it returns only after the
\* wait, on a fresh query answered Allowed.
C11_BurstOfN ==
    LET l == BurstTarget
        p == BurstCaller
    IN (calls > 0 /\ l \in Leaves) =>
        /\ (calls <= RateOf(l)) =>
              IF Running(p)
              THEN /\ Top(p).nw = 0 /\ Top(p).pc # "wait"
                   /\ \/ Top(p).nq = 0
                      \/ Top(p).pc = "reply" /\ Top(p).nq = 1 /\ IsAllowed(Top(p).last)
              ELSE /\ done.exit = "return" /\ done.err = Nil
                   /\ done.nw = 0 /\ done.nq = 1 /\ IsAllowed(done.last)
        /\ (calls = RateOf(l) + 1 /\ clock = 1) =>
              /\ Running(p)
              /\ Top(p).nq > 0 =>
                    /\ Top(p).nq = 1 /\ Top(p).last = Denied(Period)
                    /\ \/ Top(p).pc = "reply" /\ Top(p).nw = 0
                       \/ /\ Top(p).pc = "wait" /\ Top(p).nw = 1
                          /\ Top(p).deadline = clock + Period
        /\ (calls = RateOf(l) + 1 /\ ~Running(p) /\ done.nw > 0) =>
              /\ done.exit = "return" /\ done.err = Nil
              /\ done.nq = done.nw + 1 /\ IsAllowed(done.last)
              /\ done.t >= done.deadline /\ clock >= done.deadline
\* the third call of a burst on the leaf of rate 2 has waited for the second
\* window and returned in it
C11_Witness ==
    /\ ~Running(BurstCaller) /\ Returned("leaf")
    /\ done.lim = "b" /\ calls = RateOf("b") + 1
    /\ done.nw = 1 /\ done.err = Nil /\ done.t = done.deadline
\* the second call of a burst on the leaf of rate 1 was denied, and has
\* returned a nil error out of its wait in the window of the first call,
\* released by the cancellation of the leaf's context
C11_ReleasedEarly ==
    /\ ~Running(BurstCaller) /\ Returned("leaf")
    /\ done.lim = "a" /\ calls = RateOf("a") + 1
    /\ done.err = Nil /\ IsBackoff(done.last) /\ done.nq = 1 /\ done.nw = 1
    /\ clock = 1 /\ done.t < done.deadline

\* C12: a single caller bursts Take on a composite of two leaves with fresh,
\* distinct keys and rates N1 < N2 (either order; both given at construction
\* or the second added by AddLimiter before the burst). The burst is held
\* back exactly as a burst on a lone leaf of rate N1 (C11): the leaf of rate
\* N2 never makes a call wait; none of the first N1 calls waits, each returns
\* a nil error after one Allowed query per constituent; the (N1+1)th call,
\* begun in the window of the first N1, has not returned while that window
\* lasts, is suspended in the rate-N1 leaf on the denial the store has
\* answered that leaf in the window, and returns only after the next window
\* has opened.
C12_CompositeAsMostRestrictive ==
    LET p == BurstCaller
        c == BurstTarget
    IN (BurstTakes > 0 /\ c \in Composites /\ Len(limiters[c]) = 2) =>
        LET n1 == MinRate(limiters[c]) IN
        /\ \A j \in BurstFrames :
              (stack[p][j].op = "leaf" /\ RateOf(stack[p][j].lim) > n1) =>
                  stack[p][j].nw = 0 /\ stack[p][j].pc # "wait"
        /\ (BurstTakes <= n1) =>
              /\ \A j \in BurstFrames :
                    stack[p][j].nw = 0 /\ stack[p][j].pc # "wait"
              /\ ~Running(p) =>
                    /\ Returned("comp") /\ done.err = Nil
                    /\ Len(done.log) = 2 /\ done.nq = 2 /\ done.nw = 0
        /\ (BurstTakes = n1 + 1 /\ clock = 1) =>
              /\ Running(p)
              /\ \A j \in BurstFrames :
                    (stack[p][j].op = "leaf" /\ RateOf(stack[p][j].lim) = n1
                        /\ stack[p][j].nq > 0) =>
                        /\ stack[p][j].nq = 1 /\ stack[p][j].last = Denied(Period)
                        /\ \/ stack[p][j].pc = "reply" /\ stack[p][j].nw = 0
                           \/ /\ stack[p][j].pc = "wait" /\ stack[p][j].nw = 1
                              /\ stack[p][j].deadline = clock + Period
        /\ (BurstTakes = n1 + 1 /\ ~Running(p) /\ done.nw > 0) =>
              /\ Returned("comp") /\ done.err = Nil
              /\ Len(done.log) = 2 /\ done.nq = 3 /\ done.nw = 1
              /\ done.t >= 1 + Period /\ clock >= 1 + Period
\* the second Take of a burst on the composite that got its rate-1 leaf by
\* AddLimiter, behind the rate-2 leaf, has waited for the second window
C12_Witness ==
    /\ ~Running(BurstCaller) /\ Returned("comp")
    /\ done.snap = <<"b", "a">> /\ nAdded[done.lim] = 1
    /\ BurstTakes = RateOf("a") + 1
    /\ done.err = Nil /\ done.nw = 1 /\ done.t = 1 + Period
\* the second Take of a burst on the composite (b, a) has returned a nil
\* error in the window of the first: its call of the rate-1 leaf was denied
\* and released from the wait by the cancellation of the leaf's context
C12_ReleasedEarly ==
    /\ ~Running(BurstCaller) /\ Returned("comp")
    /\ done.snap = <<"b", "a">> /\ BurstTakes = RateOf("a") + 1
    /\ done.err = Nil /\ Len(done.log) = 2 /\ done.nq = 2 /\ done.nw = 1
    /\ clock = 1

\* C13: a composite Take that returns a nil error after a constituent behind
\* the first one sat in a backoff wait has checked the constituents again
\* after that wait: it has made more constituent calls than its snapshot has
\* positions.
C13_RecheckAfterBlock ==
    (Returned("comp") /\ done.err = Nil /\ done.blockPos > 1) =>
        Len(done.log) > Len(done.snap)

\* C14: a leaf Take goes on after a store query only when that query was
\* answered Denied with RetryAfter > 0: a call that holds any other answer
\* is at the branch on it, from which it can only end. Behind the branch the
\* call has entered one wait per query; it leaves a wait without a query
\* only by the cancellation of its context, and a call that ended on any
\* other answer has put one fresh query behind every wait it entered
\* (queries = waits + 1).
C14_RetryOnlyAfterElapsedBackoff ==
    /\ \A x \in LeafFrames :
          LET f == FrameOf(x) IN
          IF f.pc = "reply"
          THEN f.nq = f.nw + 1
          ELSE /\ f.nq = f.nw
               /\ f.nq > 0 => IsBackoff(f.last)
               /\ f.pc = "wait" => f.nq > 0
    /\ done.op = "leaf" =>
          IF IsBackoff(done.last)
          THEN /\ done.exit = "return" /\ done.nq = done.nw
               /\ cancelled[done.lim]
          ELSE done.nq = done.nw + 1
\* a leaf Take was denied with a backoff, waited, queried again and returned
\* on the Allowed answer to its second query
C14_Witness ==
    /\ Returned("leaf") /\ done.err = Nil
    /\ done.nq = 2 /\ done.nw = 1 /\ IsAllowed(done.last)

\* a denial that carries no backoff hint
IsNoHintDenial(r) == r.err = Nil /\ ~r.isnil /\ r.allowed <= 0 /\ r.ra <= 0
\* the step of a leaf Take that holds such a denial as the store's answer
C15_FailOpenStep ==
    \A p \in Procs :
        (/\ At(p, "leaf", "reply")
         /\ IsNoHintDenial(Top(p).last)
         /\ stack'[p] # stack[p]) =>
            LET f == Top(p) IN
            /\ Len(stack'[p]) < Depth(p)
            /\ done'.proc = p /\ done'.op = "leaf" /\ done'.lim = f.lim
            /\ done'.exit = "return" /\ done'.err = Nil
            /\ done'.t = f.now
            /\ done'.nq = f.nq /\ done'.nw = f.nw
\* C15: the step a leaf Take takes on the store's answer Denied with
\* RetryAfter <= 0 (no error) ends the call: it returns a nil error and the
\* time read at the start of that iteration, having entered no wait for this
\* answer and with this query as its last.
C15_DegenerateDenialFailsOpen == [][C15_FailOpenStep]_vars
\* a leaf Take has failed open on a denial without a hint, returning the
\* time of the iteration's start although the clock had moved on by then
C15_Witness ==
    /\ Returned("leaf") /\ done.err = Nil
    /\ IsNoHintDenial(done.last) /\ done.nq = 1
    /\ done.t < clock

\* a leaf Take is about to query a store that keeps its contract and has a
\* unit left for the call's key
C16_QueryWithQuota(p) ==
    /\ At(p, "leaf", "query") /\ ~faulty
    /\ used[KeyOf(Top(p).lim)] < RateOf(Top(p).lim)
    /\ stack'[p] # stack[p]
\* the store grants the unit: the answer on its way to the call is Allowed
C16_Admitted(p) ==
    /\ Len(stack'[p]) = Depth(p)
    /\ stack'[p][Depth(p)].pc = "reply"
    /\ IsAllowed(stack'[p][Depth(p)].last)
    /\ used' = [used EXCEPT ![KeyOf(Top(p).lim)] = @ + 1]
\* the query is given up with the error of the context, no unit consumed
C16_GivenUp(p) ==
    /\ Len(stack'[p]) = Depth(p)
    /\ stack'[p][Depth(p)].pc = "reply"
    /\ stack'[p][Depth(p)].last = StoreError(ErrCanceled)
    /\ used' = used
\* a leaf Take branches on an answer that is Allowed or an error
C16_Answered(p) ==
    /\ At(p, "leaf", "reply") /\ ~faulty
    /\ IsAllowed(Top(p).last) \/ Top(p).last.err # Nil
    /\ stack'[p] # stack[p]
\* the call returns on that answer: nil for Allowed, else the answer's error
C16_Returned(p) ==
    /\ Len(stack'[p]) < Depth(p)
    /\ done'.proc = p /\ done'.op = "leaf" /\ done'.exit = "return"
    /\ done'.err = Top(p).last.err
    /\ IsAllowed(Top(p).last) => done'.t = Top(p).now
    /\ done'.nw = Top(p).nw /\ done'.nq = Top(p).nq
\* C16 as claimed: with a unit left and a store within its contract, the
\* query of a leaf Take is answered Allowed and the call returns a nil error,
\* whether or not the limiter's context has been cancelled.
C16_QueryIgnoresCancellation ==
    [][\A p \in Procs :
          /\ C16_QueryWithQuota(p) => C16_Admitted(p)
          /\ C16_Answered(p) => (C16_Returned(p) /\ done'.err = Nil)]_vars
\* C16 as amended: cancellation reaches the store query too. With a unit left
\* and a store within its contract, a query made under a context that is not
\* cancelled is answered Allowed; a query made under a cancelled context is
\* answered in that way or with the context's error, which consumes no unit.
\* On either answer the call returns at once, without a wait: a nil error
\* for Allowed, the context's error unchanged otherwise.
C16_CancelledQueryMayFail ==
    [][\A p \in Procs :
          /\ C16_QueryWithQuota(p) =>
                IF cancelled[Top(p).lim]
                THEN C16_Admitted(p) \/ C16_GivenUp(p)
                ELSE C16_Admitted(p)
          /\ C16_Answered(p) => C16_Returned(p)]_vars
\* a leaf Take made under a cancelled context has returned the context's
\* error from its first query, in a window that still has a unit for its key
C16_Witness ==
    /\ ~faulty /\ clock = 1
    /\ Returned("leaf") /\ done.err = ErrCanceled /\ done.nq = 1
    /\ used[KeyOf(done.lim)] < RateOf(done.lim)

\* what a step does to the lastTime of the composite Take calls of p: the
\* call whose constituent call returns in the step receives the time that
\* call returned, every other call keeps its lastTime; and a call that
\* returns a nil error on a non-empty snapshot has had a constituent call
\* return for every position and returns the lastTime it holds
C17_LastTimeStep ==
    \A p \in Procs :
        LET n == Depth(p)
            m == Len(stack'[p])
        IN /\ \A j \in 1..n :
                 (stack[p][j].op = "comp" /\ j <= m) =>
                     IF j = n - 1 /\ m = n - 1
                     THEN /\ stack'[p][j].lastTime = done'.t
                          /\ done'.proc = p
                          /\ done'.lim = stack[p][j].snap[stack[p][j].i]
                     ELSE stack'[p][j].lastTime = stack[p][j].lastTime
           /\ (/\ n > 0 /\ m < n /\ Top(p).op = "comp"
               /\ done'.exit = "return" /\ done'.err = Nil
               /\ Len(Top(p).snap) > 0) =>
                  /\ Len(Top(p).log) = Len(Top(p).snap)
                  /\ Top(p).i = Len(Top(p).snap) + 1
                  /\ done'.t = Top(p).lastTime
\* C17: a composite Take that returns a nil error on a non-empty snapshot
\* returns the time that the call of the last constituent of the snapshot
\* returned: lastTime is overwritten by each constituent call that returns
\* and by nothing else, and the final return hands it on as it is.
C17_ReturnsLastConstituentTime == [][C17_LastTimeStep]_vars
\* a composite Take over two constituents has returned, with a nil error, a
\* time handed up by a constituent that is older than the clock's reading
C17_Witness ==
    /\ Returned("comp") /\ done.err = Nil
    /\ Len(done.snap) = 2 /\ Len(done.log) = 2
    /\ done.t < clock /\ done.t > ZeroTime

\* the goroutines whose AddLimiter call on c stands at pc0
AddersAt(c, pc0) ==
    {p \in Procs : Running(p) /\ stack[p][1].op = "add"
                      /\ stack[p][1].lim = c /\ stack[p][1].pc = pc0}
\* the positions of l among the limiters appended to c
AppendedPositions(c, l) == {j \in 1..Len(Appended(c)) : Appended(c)[j] = l}
\* the sequence NewComposite was given
InitialOf(c) == CHOOSE s \in InitialLimiters : Len(s) = base[c]

\* C18: with AddLimiter and Take calls of several goroutines interleaved in
\* any way, the composite's sequence is at every moment the initial sequence
\* followed by one element per AddLimiter call that has made its append
\* (returned, or about to unlock), the limiter of each such call being there
\* exactly once: no append is lost or doubled, because between the read and
\* the write of an append nobody else changes the sequence. Every snapshot
\* a Take holds or returned with is a prefix of the sequence that contains
\* the initial sequence: the sequence as it stood after a whole number of
\* appends.
C18_AppendsLinearizable ==
    /\ \A c \in Composites :
          /\ Len(limiters[c]) =
                 base[c] + nAdded[c] + Cardinality(AddersAt(c, "unlock"))
          /\ SubSeq(limiters[c], 1, base[c]) = InitialOf(c)
          /\ \A p \in AddersAt(c, "write") : stack[p][1].snap = limiters[c]
          /\ \A p \in AddersAt(c, "unlock") :
                 Cardinality(AppendedPositions(c, stack[p][1].arg)) = 1
          /\ \A l \in Leaves : Cardinality(AppendedPositions(c, l)) <= 1
    /\ Returned("add") => Cardinality(AppendedPositions(done.lim, done.arg)) = 1
    /\ \A x \in CompFrames :
          LET f == FrameOf(x) IN
          PastSnapshot(f) =>
              /\ base[f.lim] <= Len(f.snap) /\ Len(f.snap) <= Len(limiters[f.lim])
              /\ f.snap = SubSeq(limiters[f.lim], 1, Len(f.snap))
    /\ Returned("comp") =>
          /\ base[done.lim] <= Len(done.snap)
          /\ Len(done.snap) <= Len(limiters[done.lim])
          /\ done.snap = SubSeq(limiters[done.lim], 1, Len(done.snap))
\* two AddLimiter calls that overlapped in time (the one that returned last
\* had begun before the other returned) have both returned, and the sequence
\* holds both limiters behind the initial one
C18_Witness ==
    /\ Returned("add") /\ done.startAdds = 0
    /\ nAdded[done.lim] = 2
    /\ base[done.lim] = 1
    /\ Len(limiters[done.lim]) = 3
    /\ {limiters[done.lim][2], limiters[done.lim][3]} = {"a", "b"}

\* p is suspended in the backoff wait of a constituent of a Take on c
SuspendedIn(p, c) ==
    /\ At(p, "leaf", "wait")
    /\ \E j \in 1..(Depth(p) - 1) : stack[p][j].op = "comp" /\ stack[p][j].lim = c
\* the frames of goroutines other than p that hold the read lock of c
OtherReaders(p, c) ==
    {x \in CompFrames : x[1] # p /\ FrameOf(x).lim = c
                            /\ FrameOf(x).pc \in {"copy", "runlock"}}

\* C19: a goroutine suspended in a constituent's backoff wait inside a Take
\* on composite c holds neither side of c's lock: it is not the writer and
\* the read lock is held by other goroutines' snapshot steps only. So the
\* other goroutine is never kept waiting by it: its AddLimiter on c can take
\* the lock and find no reader to wait for, its Take on c can take the read
\* lock unless an AddLimiter is under way, and the steps of its Take on a
\* single limiter are always possible.
C19_SuspendedHoldsNoLock ==
    \A p \in Procs : \A c \in Composites :
        SuspendedIn(p, c) =>
            /\ writer[c] # p
            /\ readers[c] = Cardinality(OtherReaders(p, c))
            /\ \A q \in Procs \ {p} :
                  /\ At(q, "add", "lock") /\ Top(q).lim = c => ENABLED AddLock(q)
                  /\ At(q, "add", "drain") /\ Top(q).lim = c => ENABLED AddDrain(q)
                  /\ (At(q, "comp", "rlock") /\ Top(q).lim = c /\ writer[c] = NoProc)
                        => ENABLED CompRLock(q)
                  /\ At(q, "leaf", "now") => ENABLED LeafNow(q)
                  /\ At(q, "leaf", "query") => ENABLED LeafQuery(q)
                  /\ At(q, "leaf", "reply") => ENABLED LeafReply(q)
\* while one goroutine is suspended inside a Take on c, the other has taken
\* the write lock of c, appended, and is about to unlock
C19_Witness ==
    \E p \in Procs : \E q \in Procs \ {p} : \E c \in Composites :
        /\ SuspendedIn(p, c)
        /\ At(q, "add", "unlock") /\ Top(q).lim = c
        /\ writer[c] = q
        /\ Len(limiters[c]) > Len(stack[p][1].snap)

\* C20 as claimed: under fair scheduling, with a store that keeps its contract
\* and windows that keep renewing, every Take call that is begun returns.
C20_EveryTakeReturns ==
    \A p \in Procs : Running(p) ~> ~Running(p)
\* C20 as amended: under the same conditions the callers as a whole keep
\* being served (the goroutines are never all inside Take for ever), and a
\* caller is not left inside Take for ever once the other callers have
\* stopped calling (it is never inside Take for ever with everybody else
\* idle for ever).
C20_ServedUnlessOvertaken ==
    /\ []<>(\E p \in Procs : ~Running(p))
    /\ \A p \in Procs : []<>(~Running(p) \/ \E q \in Procs \ {p} : Running(q))
\* two goroutines are inside Take on the key of rate 1 in one window: one has
\* been admitted in this window and returned, called again and waits on its
\* first denial, and the other waits too after a second denial
C20_Witness ==
    \E p \in Procs : \E q \in Procs \ {p} :
        /\ At(p, "leaf", "wait") /\ Top(p).lim = "a" /\ Top(p).nq >= 2
        /\ At(q, "leaf", "wait") /\ Top(q).lim = "a" /\ Top(q).nq = 1
        /\ okReturns["k1"] = 1 /\ used["k1"] = 1

\* a constituent call of a composite Take of p returns a nil error in this step
ConstituentAdmitted(p) ==
    /\ Depth(p) >= 2
    /\ Top(p).op = "leaf" /\ stack[p][Depth(p) - 1].op = "comp"
    /\ Len(stack'[p]) = Depth(p) - 1
    /\ done'.proc = p /\ done'.exit = "return" /\ done'.err = Nil
\* the call of p that returns in this step holds the store's answer Allowed
\* to its own latest query
GrantedNow(p) ==
    /\ At(p, "leaf", "reply")
    /\ IsAllowed(Top(p).last)
\* the store answers the query of p's leaf Take with Allowed in this step
QueryGranted(p) ==
    /\ At(p, "leaf", "query")
    /\ Len(stack'[p]) = Depth(p)
    /\ stack'[p][Depth(p)].pc = "reply"
    /\ IsAllowed(stack'[p][Depth(p)].last)

\* C21: the constituent calls of a composite Take are made one per position
\* of the snapshot, in snapshot order, none a second time (a constituent that
\* was checked is not validated again, whatever other callers take from its
\* quota meanwhile); each one that returns a nil error returns on the
\* Allowed answer to its own query, and the step in which the store gave
\* that answer took the unit from the key's window; here with a store that
\* keeps its contract.
C21_EachGrantedAtItsCheck ==
    /\ [](\A x \in CompFrames :
             LET f == FrameOf(x) IN
             /\ Len(f.log) <= Len(f.snap)
             /\ \A m \in 1..Len(f.log) : f.log[m].lim = f.snap[m])
    /\ [][\A p \in Procs :
             /\ (~faulty /\ ConstituentAdmitted(p)) => GrantedNow(p)
             /\ (~faulty /\ QueryGranted(p)) =>
                    /\ used[KeyOf(Top(p).lim)] < RateOf(Top(p).lim)
                    /\ used' = [used EXCEPT ![KeyOf(Top(p).lim)] = @ + 1]]_vars
\* between the check of the first constituent by a composite Take, which got
\* the last unit of that constituent's window, and the check of the second,
\* another caller's Take on the first constituent has been denied: the
\* quotas are not satisfied together at this instant
C21_Interleaved ==
    \E p \in Procs : \E q \in Procs \ {p} :
        /\ Depth(p) = 2 /\ stack[p][1].op = "comp" /\ stack[p][1].i = 2
        /\ stack[p][1].log = <<[lim |-> stack[p][1].snap[1], err |-> Nil]>>
        /\ At(q, "leaf", "wait") /\ Depth(q) = 1
        /\ Top(q).lim = stack[p][1].snap[1]
        /\ Top(q).lim # stack[p][1].snap[2]

\* the leaves a Take on the sequence s reaches, in the order in which it
\* reaches them: s with every composite replaced by its own constituents
RECURSIVE FlatSeq(_)
FlatSeq(s) ==
    IF s = << >> THEN << >>
    ELSE (IF Head(s) \in Leaves THEN <<Head(s)>> ELSE FlatSeq(limiters[Head(s)]))
            \o FlatSeq(Tail(s))
\* the leaf Take calls that have returned within the frames 1..j of p, in
\* the order in which they were made
RECURSIVE LeafCallsDone(_, _)
LeafCallsDone(p, j) ==
    IF j = 0 THEN << >>
    ELSE LeafCallsDone(p, j - 1) \o
            (IF stack[p][j].op = "comp"
             THEN FlatSeq(SubSeq(stack[p][j].snap, 1, Len(stack[p][j].log)))
             ELSE << >>)
\* the frames of the caller of nested and flat composites
NestFrames == {j \in 1..(MaxNestCalls + 3) : j <= Depth(NestCaller)}

\* where a Take on a nested or flat composite stands among its leaves
C22_FlatState ==
    LET p == NestCaller IN
    /\ FlatSeq(limiters["c"]) = limiters["e"]
    /\ FlatSeq(limiters["e"]) = limiters["e"]
    /\ \A j \in NestFrames : \A m \in 1..Len(stack[p][j].log) :
          stack[p][j].log[m].err # Nil =>
              (j = Depth(p) /\ stack[p][j].pc = "chk" /\ m = Len(stack[p][j].log))
    /\ (Running(p) /\ Top(p).op = "leaf") =>
          LET F == FlatSeq(limiters[stack[p][1].lim])
              D == LeafCallsDone(p, Depth(p) - 1)
          IN /\ Len(D) < Len(F)
             /\ D = SubSeq(F, 1, Len(D))
             /\ Top(p).lim = F[Len(D) + 1]
    /\ (Returned("comp") /\ done.err = Nil /\ Len(done.snap) > 0) =>
          /\ Len(done.log) = Len(done.snap)
          /\ FlatSeq(SubSeq(done.snap, 1, Len(done.log))) = FlatSeq(limiters[done.lim])
    /\ (Returned("comp") /\ done.err # Nil) =>
          /\ Len(done.log) > 0
          /\ done.err = done.log[Len(done.log)].err
\* how a result travels up through the composites: the caller of a call that
\* returns receives the call's error as it is, and a composite that has
\* received an error returns it in its next step
C22_ResultStep ==
    LET p == NestCaller
        n == Depth(p)
    IN /\ (n >= 2 /\ Len(stack'[p]) = n - 1) =>
              /\ stack'[p][n - 1].err = done'.err
              /\ stack'[p][n - 1].pc = "chk"
              /\ done'.lim = stack[p][n - 1].snap[stack[p][n - 1].i]
       /\ (n >= 1 /\ stack'[p] # stack[p] /\ Top(p).op = "comp"
              /\ Top(p).pc = "chk" /\ Top(p).err # Nil) =>
              /\ Len(stack'[p]) = n - 1
              /\ done'.lim = Top(p).lim /\ done'.exit = "return"
              /\ done'.err = Top(p).err
\* C22: with nobody appending, a Take on a composite that holds a composite
\* goes through the leaves exactly as a Take on the composite of those leaves
\* (the flat composite "e" and the nested "c" obey one and the same rule):
\* the leaf Take running at any moment is the next leaf of the flattened
\* sequence after the leaf calls that have returned, all of which returned
\* nil; a call that returns nil has gone through the whole sequence; and the
\* first error that a leaf returns travels up unchanged, level by level, with
\* no further leaf called, and is the error that Take returns.
C22_NestedAsFlat == [](C22_FlatState) /\ [][C22_ResultStep]_vars
\* a Take on the composite that holds composite (a, b) and then a has
\* returned nil after four store queries, the leaf a having made its second
\* call wait for the next window
C22_Witness ==
    /\ ~Running(NestCaller) /\ Returned("comp") /\ done.lim = "c"
    /\ done.snap = <<"d", "a">> /\ done.err = Nil
    /\ done.nq = 4 /\ done.nw = 1 /\ done.blockPos = 2

\* the units the store has granted to a call that returned a nil error, in
\* a run whose store keeps its contract: there every query is answered with
\* a unit or with a denial and its backoff, and the denial sends the call
\* into a wait, so the units are the call's queries less its waits
UnitsGranted(d) == d.nq - d.nw
\* the positions of a sequence that hold limiter l
PositionsOf(s, l) == {m \in 1..Len(s) : s[m] = l}

\* C23: a composite Take that returns a nil error on a snapshot that holds
\* limiter L at its k >= 2 positions has called L.Take once for every
\* position and has been granted k units of L's quota, one per call; here
\* with a store that keeps its contract.
C23_DuplicatesEachConsume ==
    \A l \in Leaves :
        LET k == Cardinality(PositionsOf(done.snap, l)) IN
        (/\ ~faulty /\ Returned("comp") /\ done.err = Nil
         /\ k >= 2 /\ k = Len(done.snap)) =>
            /\ Len(done.log) = k
            /\ \A m \in 1..k : done.log[m] = [lim |-> l, err |-> Nil]
            /\ UnitsGranted(done) = k

\* C24: under fair scheduling, once the context of the leaf is cancelled
\* every Take call on it that is under way or is begun later returns, also a
\* call that the store denies, with a backoff, at every query it makes: the
\* retry loop does not go round for ever past a cancelled context.
C24_CancelledTakeReturns ==
    \A p \in Procs : (cancelled[CtxLeaf] /\ Running(p)) ~> ~Running(p)
\* a Take that the store had denied at two queries, in two windows, has been
\* released by the cancellation of the context while the other goroutine,
\* which had got the unit, is inside Take again
C24_Witness ==
    \E p \in Procs : \E q \in Procs \ {p} :
        /\ cancelled[CtxLeaf] /\ Running(q)
        /\ done.proc = p /\ Returned("leaf") /\ done.lim = CtxLeaf
        /\ IsBackoff(done.last) /\ done.nq >= 2 /\ done.nw = done.nq
        /\ done.err = Nil

\* a denial: the store's answer that the quota is used up, with or without
\* a backoff hint
IsDenial(r) == r.err = Nil /\ ~r.isnil /\ r.allowed <= 0

\* C25: a leaf Take that returns a non-nil error has made a store query, and
\* the last one returned an error, which is the error of the call, or a nil
\* result with a nil error, for which the call returns ErrIntervalServer. A
\* call whose last answer from the store was a denial returns a nil error,
\* however many queries it made and waits it sat through; and a call that
\* is waiting has met no error.
C25_ErrorOnlyFromStore ==
    /\ (Returned("leaf") /\ done.err # Nil) =>
          /\ done.nq >= 1
          /\ done.last.err # Nil \/ done.last.isnil
          /\ done.last.err # Nil => done.err = done.last.err
          /\ done.last.err = Nil => done.err = ErrIntervalServer
    /\ (done.op = "leaf" /\ IsDenial(done.last)) =>
          (done.exit = "return" /\ done.err = Nil)
    /\ \A p \in Procs : At(p, "leaf", "wait") => IsBackoff(Top(p).last)
\* a leaf Take that the store had denied, and that waited for the next
\* window, has returned the error of its second query
C25_Witness ==
    /\ Returned("leaf") /\ done.err # Nil
    /\ done.err = done.last.err
    /\ done.nw = 1 /\ done.nq = 2 /\ done.t >= done.deadline

\* the units the store had granted to a composite Take before the constituent
\* call that failed, in a run whose store keeps its contract: the queries
\* that sent the call into no wait, less the one that returned the error
UnitsBeforeFailure(d) == d.nq - d.nw - 1

\* C26: no step of a Take gives a unit back: the units consumed in a window
\* only grow until the store opens the next window, also in the steps in
\* which a constituent call fails or begins to wait and in which the
\* composite returns the error. So a composite Take that returns the error of
\* the constituent at position i has been granted, and has left consumed, one
\* unit for each of the i - 1 constituents before it; here with a store that
\* keeps its contract.
C26_NoRefundOnFailure ==
    /\ [][clock' = clock => \A k \in Keys : used'[k] >= used[k]]_vars
    /\ []((~faulty /\ Returned("comp") /\ done.err # Nil) =>
             UnitsBeforeFailure(done) = Len(done.log) - 1)

\* the goroutines inside the body of AddLimiter on c, holding its lock
\* exclusively
Exclusive(c) ==
    AddersAt(c, "append") \cup AddersAt(c, "write") \cup AddersAt(c, "unlock")
\* the goroutines whose Take on c is in its snapshot step, holding the read
\* lock of c (a call in that step is the goroutine's running call)
SnapshotReaders(c) ==
    {p \in Procs : /\ Running(p) /\ Top(p).op = "comp" /\ Top(p).lim = c
                   /\ Top(p).pc \in {"copy", "runlock"}}

\* C27: in every state, for every composite: the read lock is held by exactly
\* the Take calls in their snapshot step (any number of them together); the
\* writers' side is held by exactly the AddLimiter call that has passed the
\* first half of Lock, at most one; while an AddLimiter is in its body no
\* Take is in its snapshot step and no other AddLimiter has passed Lock; and
\* when no AddLimiter is under way past Lock and no Take is in its snapshot
\* step, the lock is free (no holder is left behind by a return or a panic).
C27_LockInvariant ==
    \A c \in Composites :
        LET inLock == AddersAt(c, "drain") \cup Exclusive(c) IN
        /\ readers[c] = Cardinality(SnapshotReaders(c))
        /\ Cardinality(inLock) <= 1
        /\ \A p \in Procs : writer[c] = p <=> p \in inLock
        /\ Exclusive(c) # {} => readers[c] = 0
        /\ inLock = {} => writer[c] = NoProc
        /\ \A p \in dead : writer[c] # p
\* an AddLimiter has passed the first half of Lock and waits for the Take
\* that is in its snapshot step to release the read lock
C27_Witness ==
    \E c \in Composites : \E p \in Procs : \E q \in Procs \ {p} :
        /\ p \in AddersAt(c, "drain") /\ writer[c] = p
        /\ At(q, "comp", "runlock") /\ Top(q).lim = c
        /\ readers[c] = 1

====
